---- MODULE Spec2Model ----
(***************************************************************************)
(* A model of CrosswordCreator (generate.py): the domains of a crossword   *)
(* CSP, node consistency, revise / AC-3, the consistency test, the two     *)
(* ordering heuristics and the recursive backtracking search, run as       *)
(* solve() runs them.                                                      *)
(*                                                                         *)
(* A word is a tuple of letters; Python's 0-based index k of a word is     *)
(* position k + 1 of the tuple.  A Variable is the record of its four      *)
(* fields.  A dict is the sequence of its (key, value) pairs in insertion  *)
(* order, which is the order Python iterates it in.  A Python set has no   *)
(* specified iteration order: wherever the code's result depends on one,   *)
(* the model takes every order.                                            *)
(***************************************************************************)
EXTENDS Naturals, Sequences, FiniteSets

VARIABLES
    variables,    \* crossword.variables
    words,        \* crossword.words
    var_order,    \* the order in which this run iterates crossword.variables
    domains,      \* self.domains
    pc,           \* position in solve()
    arcs,         \* the arc queue of ac3
    ac3_result,   \* what ac3 returned: "pending", "True" or "False"
    pop_word,     \* per variable, the word domains[v].copy().pop() yields
    assignment,   \* the dict shared by all backtrack calls
    stack,        \* one frame per active backtrack call that is in its loop:
                  \* its var, its ordered values, how many it has tried, and
                  \* the assignment it was entered with
    temp_dic,     \* the last dict handed to consistent
    verdict,      \* what consistent made of it: "True", "False", "KeyError"
    returned,     \* what solve() ended with: "pending", "assignment", "None", "KeyError"
    supplied,     \* the arcs argument of the ac3 call
    revise_call,  \* the last direct call of revise: its arguments and what it returned
    earlier_domains,  \* the domains when ac3 returned True, once ac3 is called again
    earlier_result    \* what an earlier run of solve() on this crossword ended with

vars == <<variables, words, var_order, domains, pc, arcs, ac3_result, pop_word,
          assignment, stack, temp_dic, verdict, returned,
          supplied, revise_call, earlier_domains, earlier_result>>

----------------------------------------------------------------------------
(* Bounds and the inputs drawn from them *)

\* the word list holds at most MaxWords words
MaxWords == 4

\* the word lists on which two runs of the program are compared
MaxWordsTwoRuns == 2

\* the largest word list of the runs checked for termination
MaxWordsFair == 2

\* the longest arc list a caller passes to ac3
MaxArcs == 2

ACROSS == "across"
DOWN == "down"

Var(i, j, direction, length) ==
    [i |-> i, j |-> j, direction |-> direction, length |-> length]

\* Four grids.  LayoutU is the grid  ###  : one across slot of length 3
\*                                   #.#    crossed at both ends by a down
\* slot of length 2.  LayoutHook is LayoutU with the right-hand down slot one
\* square longer.  LayoutT is a length-3 across slot crossed in its middle by
\* a length-3 down slot.  LayoutApart has two slots that share no square.
LayoutU == {Var(0, 0, ACROSS, 3), Var(0, 0, DOWN, 2), Var(0, 2, DOWN, 2)}
LayoutHook == {Var(0, 0, ACROSS, 3), Var(0, 0, DOWN, 2), Var(0, 2, DOWN, 3)}
LayoutT == {Var(0, 0, ACROSS, 3), Var(0, 1, DOWN, 3)}
LayoutApart == {Var(0, 0, ACROSS, 2), Var(2, 0, ACROSS, 3)}
Layouts == {LayoutU, LayoutHook, LayoutT, LayoutApart}

WordUniverse ==
    { <<"a", "b">>, <<"b", "a">>, <<"b", "b">>,
      <<"a", "b", "b">>, <<"b", "a", "b">>, <<"b", "b", "a">> }

WordLists == {W \in SUBSET WordUniverse : Cardinality(W) <= MaxWords}

\* every sequence that lists the elements of S once each
Orderings(S) ==
    {s \in [1..Cardinality(S) -> S] : \A a, b \in 1..Cardinality(S) : s[a] = s[b] => a = b}

----------------------------------------------------------------------------
(* The Crossword the creator is given (crossword.py) *)

None == <<>>

CellAt(v, k) ==
    << v.i + (IF v.direction = DOWN THEN k ELSE 0),
       v.j + (IF v.direction = ACROSS THEN k ELSE 0) >>

Cells(v) == {CellAt(v, k) : k \in 0..(v.length - 1)}

\* overlaps[x, y]: None, or the pair of 0-based offsets of the shared square
overlaps(x, y) ==
    IF Cells(x) \cap Cells(y) = {}
    THEN None
    ELSE LET c == CHOOSE c \in Cells(x) \cap Cells(y) : TRUE
         IN  << CHOOSE k \in 0..(x.length - 1) : CellAt(x, k) = c,
                CHOOSE k \in 0..(y.length - 1) : CellAt(y, k) = c >>

neighbors(var) == {v \in variables : v # var /\ overlaps(v, var) # None}

----------------------------------------------------------------------------
(* enforce_node_consistency *)

\* a filter that only drops the words that are too long
KeepsWordOrShorter(word, key) == Len(word) <= key.length

\* line 100 negated: the word stays in domains[key]
KeepsWord(word, key) == Len(word) = key.length

NodeConsistentDomain(key) == {word \in domains[key] : KeepsWord(word, key)}

----------------------------------------------------------------------------
(* revise *)

\* lines 119-125 for one val_x: count ends as the number of val_y whose letter
\* differs; the test count == len(domains[y]) sits inside the loop over
\* domains[y], so it is never evaluated when domains[y] is empty.
ReviseRemoves(val_x, x, y) ==
    LET overlap == overlaps(x, y)
        differing == {val_y \in domains[y] : val_y[overlap[2] + 1] # val_x[overlap[1] + 1]}
    IN  /\ domains[y] # {}
        /\ Cardinality(differing) = Cardinality(domains[y])

\* domains[x] after revise(x, y)
RevisedDomain(x, y) ==
    IF overlaps(x, y) = None
    THEN domains[x]
    ELSE {val_x \in domains[x] : ~ReviseRemoves(val_x, x, y)}

\* a revise that reports a revision for every pair that overlaps
ReviseReportsOverlap(x, y) == overlaps(x, y) # None

\* the value revise(x, y) returns: revisone_made, set when a value is removed
revise(x, y) ==
    /\ overlaps(x, y) # None
    /\ \E val_x \in domains[x] : ReviseRemoves(val_x, x, y)

----------------------------------------------------------------------------
(* ac3 *)

Arc(x, y) == <<x, y>>

\* a queue that keeps the arc it hands out
PoppedKept(queue) == queue

\* line 147: the queue after arcs.pop(0)
Popped(queue) == Tail(queue)

\* lines 140-145: for each variable in iteration order, its arcs in some order
RECURSIVE InitialArcLists(_)
InitialArcLists(k) ==
    IF k = 0
    THEN {<<>>}
    ELSE LET variable == var_order[k]
         IN  { before \o [n \in 1..Len(order) |-> Arc(variable, order[n])] :
                 before \in InitialArcLists(k - 1),
                 order \in Orderings(neighbors(variable)) }

\* an ac3 that enqueues the arcs out of x, (x, z), after a revision
RequeuedOutward(x, y, order) == [n \in 1..Len(order) |-> Arc(x, order[n])]

\* an ac3 that enqueues nothing after a revision
RequeuedNothing(x, y, order) == <<>>

\* lines 151-154: the arcs (z, x) for the neighbours z of x other than y
Requeued(x, y, order) == [n \in 1..Len(order) |-> Arc(order[n], x)]

\* what domains[v].copy().pop() can yield for each variable once the domains
\* are final; None stands for the KeyError of popping an empty set
PopChoices(doms) ==
    {p \in [variables -> WordUniverse \cup {None}] :
        \A v \in variables :
            IF doms[v] = {} THEN p[v] = None ELSE p[v] \in doms[v]}

----------------------------------------------------------------------------
(* assignment_complete, consistent, the ordering heuristics *)

Keys(dict) == {dict[k][1] : k \in 1..Len(dict)}

\* lines 163-170
assignment_complete(dict) ==
    /\ \A k \in 1..Len(dict) : dict[k][2] # <<>>
    /\ Len(dict) = Cardinality(variables)

\* lines 178-190 for the k-th key of the dict: the outcomes the loop body can
\* have.  `word` of line 176 is always the previous key's word.
KeyOutcomes(dict, k) ==
    LET key == dict[k][1]
        value == dict[k][2]
        raising == {n \in neighbors(key) : domains[n] = {}}
        differing == {n \in neighbors(key) :
                        /\ domains[n] # {}
                        /\ value[overlaps(key, n)[1] + 1]
                             # pop_word[n][overlaps(key, n)[2] + 1]}
    IN  IF key.length # Len(value) THEN {"False"}
        ELSE IF k > 1 /\ value = dict[k - 1][2] THEN {"False"}
        ELSE IF raising = {} /\ differing = {} THEN {"next"}
        ELSE (IF raising # {} THEN {"KeyError"} ELSE {})
             \cup (IF differing # {} THEN {"False"} ELSE {})

\* consistent(dict), from its k-th key on: the set of its possible outcomes
RECURSIVE ConsistentFrom(_, _)
ConsistentFrom(dict, k) ==
    IF k > Len(dict)
    THEN {"True"}
    ELSE (KeyOutcomes(dict, k) \ {"next"})
         \cup (IF "next" \in KeyOutcomes(dict, k) THEN ConsistentFrom(dict, k + 1) ELSE {})

consistent(dict) == ConsistentFrom(dict, 1)

RECURSIVE SumOver(_, _, _, _)
SumOver(S, value, var, total) ==
    IF S = {}
    THEN total
    ELSE LET neighbor == CHOOSE n \in S : TRUE
             overlap == overlaps(var, neighbor)
             equal == {neighbor_value \in domains[neighbor] :
                         value[overlap[1] + 1] = neighbor_value[overlap[2] + 1]}
         IN  SumOver(S \ {neighbor}, value, var, total + Cardinality(equal))

\* lines 205-212: assign_values[value]
AssignValue(value, var, dict) == SumOver(neighbors(var) \ Keys(dict), value, var, 0)

\* lines 213-214: a stable sort by assign_values of the domain in set order
order_domain_values(var, dict) ==
    {s \in Orderings(domains[var]) :
        \A a, b \in 1..Len(s) :
            a < b => AssignValue(s[a], var, dict) <= AssignValue(s[b], var, dict)}

\* lines 239-241: the first variable, in iteration order, not in the dict
select_unassigned_variable(dict) ==
    var_order[CHOOSE k \in 1..Len(var_order) :
                /\ var_order[k] \notin Keys(dict)
                /\ \A m \in 1..(k - 1) : var_order[m] \in Keys(dict)]

----------------------------------------------------------------------------
(* solve(): the state machine *)

Init ==
    /\ variables \in Layouts
    /\ words \in WordLists
    /\ var_order \in Orderings(variables)
    /\ domains = [var \in variables |-> words]
    /\ pc = "enforce_node_consistency"
    /\ arcs = <<>>
    /\ ac3_result = "pending"
    /\ pop_word = [var \in variables |-> None]
    /\ assignment = <<>>
    /\ stack = <<>>
    /\ temp_dic = <<>>
    /\ verdict = "pending"
    /\ returned = "pending"
    /\ supplied = [given |-> FALSE, arcs |-> <<>>]
    /\ revise_call = [called |-> FALSE]
    /\ earlier_domains = <<>>
    /\ earlier_result = [ended |-> FALSE]

\* what only a caller other than solve() sets
caller == <<supplied, revise_call, earlier_domains, earlier_result>>

crossword == <<variables, words, var_order>>
search == <<assignment, stack, temp_dic, verdict, returned>>

enforce_node_consistency ==
    /\ pc = "enforce_node_consistency"
    /\ domains' = [key \in variables |-> NodeConsistentDomain(key)]
    /\ pc' = "ac3"
    /\ UNCHANGED <<crossword, caller, arcs, ac3_result, pop_word, search>>

ac3_initial_arcs ==
    /\ pc = "ac3"
    /\ \E list \in InitialArcLists(Len(var_order)) : arcs' = list
    /\ pc' = "ac3_while"
    /\ UNCHANGED <<crossword, caller, domains, ac3_result, pop_word, search>>

\* revise returned False: nothing is enqueued
ac3_not_revised ==
    /\ pc = "ac3_while"
    /\ arcs # <<>>
    /\ ~revise(arcs[1][1], arcs[1][2])
    /\ arcs' = Popped(arcs)
    /\ UNCHANGED <<crossword, caller, domains, pc, ac3_result, pop_word, search>>

\* revise returned True and left values: the arcs into x are enqueued
ac3_revised ==
    /\ pc = "ac3_while"
    /\ arcs # <<>>
    /\ LET x == arcs[1][1]
           y == arcs[1][2]
       IN  /\ revise(x, y)
           /\ RevisedDomain(x, y) # {}
           /\ domains' = [domains EXCEPT ![x] = RevisedDomain(x, y)]
           /\ \E order \in Orderings(neighbors(x) \ {y}) :
                  arcs' = Popped(arcs) \o Requeued(x, y, order)
    /\ UNCHANGED <<crossword, caller, pc, ac3_result, pop_word, search>>

\* revise emptied domains[x]: ac3 returns False, and solve goes on to backtrack
ac3_return_false ==
    /\ pc = "ac3_while"
    /\ arcs # <<>>
    /\ LET x == arcs[1][1]
           y == arcs[1][2]
       IN  /\ revise(x, y)
           /\ RevisedDomain(x, y) = {}
           /\ domains' = [domains EXCEPT ![x] = RevisedDomain(x, y)]
    /\ arcs' = Popped(arcs)
    /\ ac3_result' = "False"
    /\ pop_word' \in PopChoices(domains')
    /\ pc' = "backtrack"
    /\ UNCHANGED <<crossword, caller, search>>

\* the queue is empty: ac3 returns True
ac3_return_true ==
    /\ pc = "ac3_while"
    /\ arcs = <<>>
    /\ ac3_result' = "True"
    /\ pop_word' \in PopChoices(domains)
    /\ pc' = "backtrack"
    /\ UNCHANGED <<crossword, caller, domains, arcs, search>>

Top == stack[Len(stack)]

\* line 253-254: the assignment is complete and is returned up to solve
backtrack_return_assignment ==
    /\ pc = "backtrack"
    /\ assignment_complete(assignment)
    /\ returned' = "assignment"
    /\ pc' = "done"
    /\ UNCHANGED <<crossword, caller, domains, arcs, ac3_result, pop_word,
                   assignment, stack, temp_dic, verdict>>

\* lines 255-256: a variable is selected and its values are ordered
backtrack_select ==
    /\ pc = "backtrack"
    /\ ~assignment_complete(assignment)
    /\ LET var == select_unassigned_variable(assignment)
       IN  \E values \in order_domain_values(var, assignment) :
              stack' = Append(stack, [var |-> var, values |-> values, tried |-> 0,
                                      entry |-> assignment])
    /\ pc' = "for_value"
    /\ UNCHANGED <<crossword, caller, domains, arcs, ac3_result, pop_word,
                   assignment, temp_dic, verdict, returned>>

NextValue == Top.values[Top.tried + 1]

\* a candidate that leaves the variable out
CandidateWithoutVar == assignment

\* lines 257-258: temp_dic
Candidate == Append(assignment, <<Top.var, NextValue>>)
Advanced == [stack EXCEPT ![Len(stack)].tried = @ + 1]

\* a pop() on the neighbour's domain itself
AfterConsistentPopping(dict) ==
    [n \in variables |->
        IF \E k \in 1..Len(dict) : n \in neighbors(dict[k][1])
        THEN domains[n] \ {pop_word[n]}
        ELSE domains[n]]

\* a consistent that takes each word it meets out of its variable's domain
AfterConsistentTaking(dict) ==
    [n \in variables |->
        domains[n] \ {dict[k][2] : k \in {m \in 1..Len(dict) : dict[m][1] = n}}]

\* line 189: self.domains after consistent(dict); pop() is applied to a copy
AfterConsistent(dict) == domains

\* a caller that keeps its variable after the recursion failed
DeletedNothing(dict) == dict

\* line 264: the assignment after del assignment[var], var being its last key
Deleted(dict) == SubSeq(dict, 1, Len(dict) - 1)

\* lines 257-261: consistent accepts the value and backtrack recurses
backtrack_recurse ==
    /\ pc = "for_value"
    /\ Top.tried < Len(Top.values)
    /\ "True" \in consistent(Candidate)
    /\ temp_dic' = Candidate
    /\ verdict' = "True"
    /\ assignment' = Candidate
    /\ stack' = Advanced
    /\ domains' = AfterConsistent(Candidate)
    /\ pc' = "backtrack"
    /\ UNCHANGED <<crossword, caller, arcs, ac3_result, pop_word, returned>>

\* lines 257-259: consistent rejects the value
backtrack_skip ==
    /\ pc = "for_value"
    /\ Top.tried < Len(Top.values)
    /\ "False" \in consistent(Candidate)
    /\ temp_dic' = Candidate
    /\ verdict' = "False"
    /\ stack' = Advanced
    /\ domains' = AfterConsistent(Candidate)
    /\ UNCHANGED <<crossword, caller, arcs, ac3_result, pop_word, pc,
                   assignment, returned>>

\* line 189: pop() of an empty domain raises, and nothing catches it
backtrack_raise ==
    /\ pc = "for_value"
    /\ Top.tried < Len(Top.values)
    /\ "KeyError" \in consistent(Candidate)
    /\ temp_dic' = Candidate
    /\ verdict' = "KeyError"
    /\ returned' = "KeyError"
    /\ domains' = AfterConsistent(Candidate)
    /\ pc' = "done"
    /\ UNCHANGED <<crossword, caller, arcs, ac3_result, pop_word,
                   assignment, stack>>

\* line 265, then lines 262-264 of the caller: the values are exhausted, the
\* call returns None and its caller deletes its own variable
backtrack_return_none ==
    /\ pc = "for_value"
    /\ Top.tried = Len(Top.values)
    /\ stack' = SubSeq(stack, 1, Len(stack) - 1)
    /\ IF Len(stack) = 1
       THEN /\ returned' = "None"
            /\ pc' = "done"
            /\ UNCHANGED assignment
       ELSE /\ assignment' = Deleted(assignment)
            /\ UNCHANGED <<returned, pc>>
    /\ UNCHANGED <<crossword, caller, domains, arcs, ac3_result, pop_word, temp_dic, verdict>>

Next ==
    \/ enforce_node_consistency
    \/ ac3_initial_arcs
    \/ ac3_not_revised
    \/ ac3_revised
    \/ ac3_return_false
    \/ ac3_return_true
    \/ backtrack_return_assignment
    \/ backtrack_select
    \/ backtrack_recurse
    \/ backtrack_skip
    \/ backtrack_raise
    \/ backtrack_return_none

Spec == Init /\ [][Next]_vars

\* node consistency and one call of ac3, without the search
NextAc3 ==
    \/ enforce_node_consistency
    \/ ac3_initial_arcs
    \/ ac3_not_revised
    \/ ac3_revised
    \/ ac3_return_false
    \/ ac3_return_true

\* the program runs on one thread and nothing suspends it: a step that can
\* be taken is taken
SpecAc3Fair == Init /\ [][NextAc3]_vars /\ WF_vars(NextAc3)

InitFair == Init /\ Cardinality(words) <= MaxWordsFair

SpecFair == InitFair /\ [][Next]_vars /\ WF_vars(Next)

----------------------------------------------------------------------------
(* revise called on its own *)

\* a caller that, after node consistency, calls revise(x, y) for any two
\* variables, as often as it likes
revise_direct ==
    /\ pc = "ac3"
    /\ \E x, y \in variables :
          /\ x # y
          /\ domains' = [domains EXCEPT ![x] = RevisedDomain(x, y)]
          /\ revise_call' = [called |-> TRUE, x |-> x, y |-> y, returned |-> revise(x, y)]
    /\ UNCHANGED <<crossword, pc, arcs, ac3_result, pop_word, search,
                   supplied, earlier_domains, earlier_result>>

NextRevise == enforce_node_consistency \/ revise_direct

SpecRevise == Init /\ [][NextRevise]_vars

----------------------------------------------------------------------------
(* ac3 called with an arc list *)

\* the lists a caller passes: arcs between overlapping variables, the empty
\* list included
SuppliedArcLists ==
    LET all == {Arc(x, y) : x \in variables, y \in variables} 
        pairs == {arc \in all : arc[1] # arc[2] /\ overlaps(arc[1], arc[2]) # None}
    IN  UNION {[1..n -> pairs] : n \in 0..MaxArcs}

\* lines 139-145 for a call ac3(arcs) with a list: `not arcs` is also true of
\* the empty list, and the list of all arcs is then built
ac3_supplied ==
    /\ pc = "ac3"
    /\ \E list \in SuppliedArcLists :
          /\ supplied' = [given |-> TRUE, arcs |-> list]
          /\ IF list = <<>>
             THEN arcs' \in InitialArcLists(Len(var_order))
             ELSE arcs' = list
    /\ pc' = "ac3_while"
    /\ UNCHANGED <<crossword, domains, ac3_result, pop_word, search,
                   revise_call, earlier_domains, earlier_result>>

NextAc3Arcs ==
    \/ enforce_node_consistency
    \/ ac3_initial_arcs
    \/ ac3_supplied
    \/ ac3_not_revised
    \/ ac3_revised
    \/ ac3_return_false
    \/ ac3_return_true

SpecAc3Arcs == Init /\ [][NextAc3Arcs]_vars

----------------------------------------------------------------------------
(* ac3() called a second time *)

\* a caller that, when ac3() has returned True, calls ac3() again at once
ac3_again ==
    /\ pc = "backtrack"
    /\ ac3_result = "True"
    /\ assignment = <<>>
    /\ stack = <<>>
    /\ earlier_domains = <<>>
    /\ earlier_domains' = domains
    /\ pc' = "ac3"
    /\ ac3_result' = "pending"
    /\ pop_word' = [var \in variables |-> None]
    /\ UNCHANGED <<crossword, domains, arcs, search, supplied, revise_call, earlier_result>>

NextAc3Twice ==
    \/ enforce_node_consistency
    \/ ac3_initial_arcs
    \/ ac3_not_revised
    \/ ac3_revised
    \/ ac3_return_false
    \/ ac3_return_true
    \/ ac3_again

SpecAc3Twice == Init /\ [][NextAc3Twice]_vars

----------------------------------------------------------------------------
(* Two runs of the program on one crossword *)

\* what a run ended with; a returned dict is compared as Python compares
\* dicts, by its items and not their order
Result ==
    [returned |-> returned,
     items |-> IF returned = "assignment"
               THEN {assignment[k] : k \in 1..Len(assignment)}
               ELSE {}]

\* main() is run again on the same structure and words: a new creator with
\* the full domains, in a process with its own set orders
solve_again ==
    /\ pc = "done"
    /\ ~earlier_result.ended
    /\ earlier_result' = [ended |-> TRUE, result |-> Result]
    /\ var_order' \in Orderings(variables)
    /\ domains' = [var \in variables |-> words]
    /\ pc' = "enforce_node_consistency"
    /\ arcs' = <<>>
    /\ ac3_result' = "pending"
    /\ pop_word' = [var \in variables |-> None]
    /\ assignment' = <<>>
    /\ stack' = <<>>
    /\ temp_dic' = <<>>
    /\ verdict' = "pending"
    /\ returned' = "pending"
    /\ UNCHANGED <<variables, words, supplied, revise_call, earlier_domains>>

NextTwoRuns == Next \/ solve_again

\* the two runs are followed for the word lists of at most MaxWordsTwoRuns words
InitTwoRuns == Init /\ Cardinality(words) <= MaxWordsTwoRuns

SpecTwoRuns == InitTwoRuns /\ [][NextTwoRuns]_vars

----------------------------------------------------------------------------
(* What the claims speak of, stated apart from the code *)

VarOf(dict, k) == dict[k][1]
WordOf(dict, k) == dict[k][2]

Covers(dict) == Keys(dict) = variables

LengthsMatch(dict) ==
    \A k \in 1..Len(dict) : Len(WordOf(dict, k)) = VarOf(dict, k).length

AllDistinct(dict) ==
    \A a, b \in 1..Len(dict) : a # b => WordOf(dict, a) # WordOf(dict, b)

\* every two assigned variables that cross agree on the shared letter
AssignedOverlapsAgree(dict) ==
    \A a, b \in 1..Len(dict) :
        LET overlap == overlaps(VarOf(dict, a), VarOf(dict, b))
        IN  (a # b /\ overlap # None) =>
               WordOf(dict, a)[overlap[1] + 1] = WordOf(dict, b)[overlap[2] + 1]

Satisfies(dict) == LengthsMatch(dict) /\ AllDistinct(dict) /\ AssignedOverlapsAgree(dict)

\* a has a supporting value in domains[y]
Supported(a, x, y) ==
    \E b \in domains[y] : a[overlaps(x, y)[1] + 1] = b[overlaps(x, y)[2] + 1]

ArcConsistent ==
    \A x, y \in variables :
        (x # y /\ overlaps(x, y) # None) => \A a \in domains[x] : Supported(a, x, y)

\* a filling of every variable from its current domain that meets all constraints
IsFilling(f) ==
    /\ \A v \in variables : f[v] \in domains[v] /\ Len(f[v]) = v.length
    /\ \A x, y \in variables : x # y => f[x] # f[y]
    /\ \A x, y \in variables :
          (x # y /\ overlaps(x, y) # None) =>
              f[x][overlaps(x, y)[1] + 1] = f[y][overlaps(x, y)[2] + 1]

FillingExists == \E f \in [variables -> WordUniverse] : IsFilling(f)

SomeDomainEmpty == \E v \in variables : domains[v] = {}

----------------------------------------------------------------------------
(* Claims *)

\* C9: enforce_node_consistency leaves in every variable's domain exactly the
\* words of its previous domain whose length is the variable's length.
C9_NodeConsistencyFilters ==
    [][pc = "enforce_node_consistency" =>
          \A v \in variables : domains'[v] = {w \in domains[v] : Len(w) = v.length}]_vars

\* node consistency has run, removed a word from some domain and kept another
C9_Witness ==
    /\ pc = "ac3"
    /\ \E v \in variables : domains[v] # {} /\ domains[v] # words

\* C10: revise(x, y) on overlapping x and y leaves in domains[x] exactly the
\* values that have a supporting value in domains[y], also when domains[y] is
\* empty.
C10_ReviseKeepsExactlySupported ==
    [][(pc = "ac3_while" /\ arcs # <<>>) =>
          LET x == arcs[1][1]
              y == arcs[1][2]
          IN  domains'[x] = {a \in domains[x] : Supported(a, x, y)}]_vars

\* C1: an assignment that solve() returns covers every variable, gives each a
\* word of its length, uses no word twice and agrees at every overlap.
C1_ReturnedAssignmentSatisfies ==
    returned = "assignment" => Covers(assignment) /\ Satisfies(assignment)

\* C2: when solve() returns None, no filling from the current domains meets
\* the constraints.
C2_NoneOnlyIfNoFilling ==
    returned = "None" => ~FillingExists

\* C3: solve() never ends in an exception; with an empty domain left by node
\* consistency or AC-3 it ends by returning None.
C3_EmptyDomainReturnsNone ==
    /\ returned # "KeyError"
    /\ (pc = "done" /\ SomeDomainEmpty) => returned = "None"

\* C4: when ac3 has returned True, no domain is empty and every arc is
\* consistent; when it has returned False, some domain is empty.
C4_Ac3ResultContract ==
    /\ ac3_result = "True" => (~SomeDomainEmpty /\ ArcConsistent)
    /\ ac3_result = "False" => SomeDomainEmpty

\* C5: on a complete assignment, consistent returns True exactly when the
\* lengths match, no word is used twice and every overlap agrees.
C5_ConsistentOnComplete ==
    (verdict # "pending" /\ Covers(temp_dic)) =>
        (verdict = "True" <=> Satisfies(temp_dic))

\* C6: on a partial assignment, consistent compares only assigned pairs, so its
\* result is decided by the assignment and the overlaps alone.
C6_ConsistentIgnoresUnassigned ==
    (verdict # "pending" /\ ~Covers(temp_dic)) =>
        verdict = (IF Satisfies(temp_dic) THEN "True" ELSE "False")

\* the variables not yet assigned when the k-th active call selected its own
UnassignedAt(k) == variables \ {stack[m].var : m \in 1..(k - 1)}

Degree(v) == Cardinality(neighbors(v))

\* C7: the selected variable has the fewest remaining values among the
\* unassigned ones and, among those, the most neighbours.
C7_SelectsMrvThenDegree ==
    \A k \in 1..Len(stack) :
        LET var == stack[k].var
            fewest == {v \in UnassignedAt(k) :
                         \A u \in UnassignedAt(k) :
                             Cardinality(domains[v]) <= Cardinality(domains[u])}
        IN  /\ var \in fewest
            /\ \A u \in fewest : Degree(var) >= Degree(u)

\* the number of values of the unassigned neighbours of var that value rules out
RECURSIVE RuledOutIn(_, _, _)
RuledOutIn(S, value, var) ==
    IF S = {}
    THEN 0
    ELSE LET n == CHOOSE n \in S : TRUE
             out == {w \in domains[n] :
                       value[overlaps(var, n)[1] + 1] # w[overlaps(var, n)[2] + 1]}
         IN  Cardinality(out) + RuledOutIn(S \ {n}, value, var)

RuledOut(value, k) ==
    RuledOutIn(neighbors(stack[k].var) \cap UnassignedAt(k + 1), value, stack[k].var)

\* C8: order_domain_values lists the values of the domain in ascending order of
\* the number of neighbour values each rules out.
C8_ValuesAscendingByRuledOut ==
    \A k \in 1..Len(stack) :
        LET values == stack[k].values
        IN  /\ {values[a] : a \in 1..Len(values)} = domains[stack[k].var]
            /\ \A a, b \in 1..Len(values) :
                  a < b => RuledOut(values[a], k) <= RuledOut(values[b], k)

\* C11: two runs of solve() on the same crossword end with the same result,
\* whatever order the sets are iterated in and whatever word a pop() yields.
C11_SecondRunSameResult ==
    (pc = "done" /\ earlier_result.ended) => Result = earlier_result.result

\* the domain node consistency leaves for v
RightLength(v) == {w \in words : Len(w) = v.length}

\* C12: when ac3() has returned True, a second ac3() changes no domain and
\* returns True again.
C12_Ac3Idempotent ==
    earlier_domains # <<>> =>
        /\ domains = earlier_domains
        /\ ac3_result # "False"
        /\ pc = "backtrack" => ac3_result = "True"

\* the second ac3() has returned, after a first one that pruned a domain
C12_Witness ==
    /\ earlier_domains # <<>>
    /\ pc = "backtrack"
    /\ \E v \in variables : domains[v] # RightLength(v)

\* C13: revise(x, y) leaves domains[x] a subset of what it was and every other
\* domain as it was, returns True exactly when domains[x] lost a value, and
\* for x and y that do not overlap changes nothing and returns False.
C13_ReviseMonotone ==
    [][(pc = "ac3" /\ pc' = "ac3") =>
          LET x == revise_call'.x
              y == revise_call'.y
          IN  /\ domains'[x] \subseteq domains[x]
              /\ \A v \in variables \ {x} : domains'[v] = domains[v]
              /\ revise_call'.returned <=> domains'[x] # domains[x]
              /\ overlaps(x, y) = None =>
                    (~revise_call'.returned /\ domains' = domains)]_vars

\* revise has returned True, having taken a value out of domains[x]
C13_Witness ==
    /\ revise_call.called
    /\ revise_call.returned
    /\ domains[revise_call.x] # RightLength(revise_call.x)

\* C14: while a call of backtrack is in its loop over the values, and so when
\* it returns None, the assignment holds exactly the entries it held when the
\* call was entered: a rejected value is not in it, and the value of a failed
\* recursion has been deleted before the next value is tried.
C14_BacktrackUndoes ==
    /\ pc = "for_value" => assignment = Top.entry
    /\ returned = "None" => assignment = <<>>

\* a nested call has tried a value and returned None to the call now looping
C14_Witness ==
    /\ pc = "for_value"
    /\ Len(temp_dic) > Len(assignment) + 1
    /\ assignment # <<>>

\* C15: each pass of the while loop of ac3 takes the arc (x, y) at the head of
\* the queue and keeps the rest in order; if revise(x, y) returns False
\* nothing is appended; if it leaves domains[x] smaller and non-empty exactly
\* the arcs (z, x), z a neighbour of x other than y, are appended, once each;
\* if it empties domains[x] ac3 returns False at once, no further arc
\* being processed.
C15_WorklistStep ==
    [][(pc = "ac3_while" /\ arcs # <<>>) =>
          LET x == arcs[1][1]
              y == arcs[1][2]
          IN  /\ \A v \in variables \ {x} : domains'[v] = domains[v]
              /\ domains'[x] = RevisedDomain(x, y)
              /\ IF domains'[x] = domains[x]
                 THEN arcs' = Tail(arcs) /\ pc' = "ac3_while"
                 ELSE IF domains'[x] = {}
                 THEN ac3_result' = "False" /\ pc' # "ac3_while"
                 ELSE /\ pc' = "ac3_while"
                      /\ \E order \in Orderings(neighbors(x) \ {y}) :
                            arcs' = Tail(arcs) \o
                                    [n \in 1..Len(order) |-> <<order[n], x>>]]_vars

\* the loop is running and an arc appended after a revision waits in the
\* queue behind its own first occurrence
C15_Witness ==
    /\ pc = "ac3_while"
    /\ \E m, n \in 1..Len(arcs) : m < n /\ arcs[m] = arcs[n]

\* the queue holds every arc (v, n), n a neighbour of v, once each
AllArcsOnce(queue) ==
    /\ {queue[k] : k \in 1..Len(queue)} =
          UNION {{<<v, n>> : n \in neighbors(v)} : v \in variables}
    /\ \A m, n \in 1..Len(queue) : m # n => queue[m] # queue[n]

\* C16: ac3 called without an arc list starts its queue with every arc (v, n),
\* n a neighbour of v, once each; called with a list, the empty list
\* included, it starts with exactly the arcs of that list.
C16_InitialArcList ==
    [][(pc = "ac3" /\ pc' = "ac3_while") =>
          IF supplied'.given
          THEN arcs' = supplied'.arcs
          ELSE AllArcsOnce(arcs')]_vars

\* C17: every call of ac3 returns, and a pass of its loop that does not
\* shorten the queue has strictly shrunk a domain.
C17_Ac3Terminates ==
    /\ [][(pc = "ac3_while" /\ pc' = "ac3_while" /\ Len(arcs') >= Len(arcs)) =>
             \E v \in variables :
                /\ domains'[v] \subseteq domains[v]
                /\ domains'[v] # domains[v]]_vars
    /\ (pc = "ac3") ~> (ac3_result # "pending")

\* ac3 has returned True after taking values out of a domain
C17_Witness ==
    /\ ac3_result = "True"
    /\ arcs = <<>>
    /\ earlier_domains = <<>>
    /\ \E v \in variables : domains[v] # RightLength(v) /\ domains[v] # {}

\* C18: each nested call of backtrack is entered with exactly one more
\* variable assigned than its caller was, the calls nested below the first
\* never outnumber the variables, and solve() comes to an end.
C18_BacktrackBoundedDepth ==
    /\ [](/\ Len(stack) <= Cardinality(variables)
          /\ \A k \in 1..Len(stack) :
                /\ Len(stack[k].entry) = k - 1
                /\ Cardinality(Keys(stack[k].entry)) = k - 1
          /\ pc = "backtrack" =>
                /\ Len(assignment) = Len(stack)
                /\ Cardinality(Keys(assignment)) = Len(stack))
    /\ <>(pc = "done")

\* the search is as deep as it can be: a call nested below one call for each
\* of three variables is entered
C18_Witness ==
    /\ pc = "backtrack"
    /\ Len(stack) = Cardinality(variables)
    /\ Len(stack) = Cardinality(LayoutU)

\* C19: from the first call of backtrack until solve() returns no domain
\* changes.
C19_DomainsReadOnlyInSearch ==
    [][(pc \in {"backtrack", "for_value"}) => (domains' = domains)]_vars

\* the search has called consistent on a value whose variable has a
\* neighbour, and has gone on
C19_Witness ==
    /\ pc \in {"backtrack", "for_value"}
    /\ verdict \in {"True", "False"}
    /\ \E k \in 1..Len(temp_dic) : neighbors(temp_dic[k][1]) # {}

\* C20: every entry (variable, word) of the assignment has a word of the
\* variable's length that is in the variable's domain.
C20_AssignedWordsFit ==
    \A k \in 1..Len(assignment) :
        /\ Len(assignment[k][2]) = assignment[k][1].length
        /\ assignment[k][2] \in domains[assignment[k][1]]

\* the search has assigned words to two variables
C20_Witness ==
    /\ Len(assignment) >= 2
    /\ pc = "for_value"

====
